---------------------------- MODULE Spec2Model ----------------------------
(***************************************************************************)
(* ResuMatch: the resume analysis pipeline.                                *)
(*                                                                         *)
(*   POST /analyze      endpoints.py  analyze_resume                       *)
(*   POST /roles        endpoints.py  create_role                          *)
(*   GET  /candidates/{id}/suggestions   endpoints.py  get_suggestions     *)
(*   celery task        resume_processor.py  analyze_resume_task           *)
(*   suggestions        rag_service.py  RAGService, get_rag_service        *)
(*                                                                         *)
(* Optional values (Python None) are sequences of length 0 or 1.           *)
(* match_score is kept in hundredths of a percent: round(x, 2) = n / 100.  *)
(***************************************************************************)
EXTENDS Integers, Sequences, FiniteSets, TLC

VARIABLES
    roles,       \* table roleprofile: row id -> RoleProfile
    candidates,  \* table candidate:   row id -> Candidate
    queue,       \* broker: the task messages published, task id -> arguments
    task,        \* worker -> the task execution it is in
    persisted,   \* task id -> number of its executions that committed a row
    sessions,    \* worker -> number of database sessions its task holds open
    rag_service, \* rag_service._rag_service: the RAGService of the process, if built
    heap,        \* the RAGService objects constructed, and the one _rag_service names
    thread,      \* request thread -> where it is in get_rag_service
    event        \* what the step just taken returned: a response or a task outcome

vars == <<roles, candidates, queue, task, persisted, sessions, rag_service, heap, thread, event>>

---------------------------------------------------------------------------
(* Bounds of the model *)

MaxRoles == 1
MaxCandidates == 2
MaxTasks == 1

Workers == {"w1", "w2"}

\* The threads of the pool that runs the handlers declared with def
Threads == {"t1", "t2"}

---------------------------------------------------------------------------
(* Values *)

None == <<>>
Some(x) == <<x>>

\* Uploaded files: a PDF with text, a PDF whose pages yield no text, and a
\* file that is no PDF.  A file's name stands for its content.
Files == {"cv.pdf", "scan.pdf", "notes.txt"}

\* file.read()
Content(filename) ==
    CASE filename = "cv.pdf"    -> "pdfA"
      [] filename = "scan.pdf"  -> "pdfBlank"
      [] filename = "notes.txt" -> "garbage"

Contents == {Content(f) : f \in Files}

JobTexts == {"jobA", "jobB"}

\* The role ids requests and messages name: the first row of the table,
\* and an id no row has.
RoleIds == {1, 9}

\* base64.b64encode(content).decode('utf-8')
B64Encode(content) == <<"b64", content>>

\* A transport string that is not valid base64 (bad padding).
CorruptB64 == <<"bad", "!">>

\* base64.b64decode raises on CorruptB64
B64DecodeFails(s) == s[1] # "b64"

B64Decode(s) == s[2]

\* PdfReader(...) raises on bytes that are no PDF
ExtractFails(content) == content = "garbage"

\* text = "" ; for page in pdf.pages: text += page.extract_text() or ""
ExtractText(content) ==
    CASE content = "pdfA" -> "resA"
      [] content = "pdfBlank" -> ""

\* ml_model.encode(text).tolist(): one model, one dimension for every text
Encode(text) ==
    CASE text = "resA" -> <<1, 1>>
      [] text = ""     -> <<0, 1>>
      [] text = "jobA" -> <<1, 1>>
      [] text = "jobB" -> <<-1, 0>>
      [] text = "jobC" -> <<0, 1>>

---------------------------------------------------------------------------
(* sklearn cosine_similarity and the percentage score *)

RECURSIVE Dot(_, _)
Dot(a, b) == IF Len(a) = 0 THEN 0 ELSE Head(a) * Head(b) + Dot(Tail(a), Tail(b))

\* The largest s in lo..hi with (2s-1)^2 * m <= num.
RECURSIVE RoundSearch(_, _, _, _)
RoundSearch(lo, hi, num, m) ==
    IF lo = hi THEN lo
    ELSE LET mid == (lo + hi + 1) \div 2
         IN  IF (2 * mid - 1) * (2 * mid - 1) * m <= num
             THEN RoundSearch(mid, hi, num, m)
             ELSE RoundSearch(lo, mid - 1, num, m)

\* cosine_similarity raises ValueError on rows of different length
DimensionMismatch(v, e) == Len(v) # Len(e)

\* round(cos(v, e) * 100, 2) in hundredths: the integer nearest to
\* 10000 * v.e / sqrt(|v|^2 |e|^2); a zero vector normalises to zero.
CosinePct(v, e) ==
    LET d == Dot(v, e)
        m == Dot(v, v) * Dot(e, e)
    IN  IF m = 0 \/ d = 0 THEN 0
        ELSE LET s == RoundSearch(0, 10000, 400000000 * d * d, m)
             IN  IF d < 0 THEN -s ELSE s

\* MatchScore gone wrong: a missing embedding scored like a perfect match.
MatchScoreNoneAsFull(vector, embedding) ==
    IF embedding = None \/ Len(embedding[1]) = 0
    THEN 10000
    ELSE CosinePct(vector, embedding[1])

\* if not role.embedding: score = 0.0 else: score = cosine_similarity(...)
\* match_score = round(float(score) * 100, 2)
MatchScore(vector, embedding) ==
    IF embedding = None \/ Len(embedding[1]) = 0
    THEN 0
    ELSE CosinePct(vector, embedding[1])

---------------------------------------------------------------------------
(* Rows *)

RoleProfile(text, embedding) == [text |-> text, embedding |-> embedding]

\* Candidate(filename=..., role_id=..., match_score=None)
PendingCandidate(filename, role_id) ==
    [filename |-> filename, role_id |-> role_id, match_score |-> None,
     resume_text |-> None, resume_vector |-> None]

\* AnalyzedCandidate gone wrong: the text is left out of the row.
AnalyzedCandidateNoText(filename, role_id, score, text, vector) ==
    [filename |-> filename, role_id |-> role_id, match_score |-> Some(score),
     resume_text |-> None, resume_vector |-> Some(vector)]

\* Candidate(filename, role_id, match_score, resume_text, resume_vector)
AnalyzedCandidate(filename, role_id, score, text, vector) ==
    [filename |-> filename, role_id |-> role_id, match_score |-> Some(score),
     resume_text |-> Some(text), resume_vector |-> Some(vector)]

\* Rows the roleprofile table may hold before the process starts: the
\* column embedding is Optional[List[float]], of whatever length was stored.
StoredRoles ==
    { RoleProfile("jobA", None),
      RoleProfile("jobA", Some(<<1>>)) }

\* The row is in the table
RoleExists(role_id) == role_id \in DOMAIN roles

\* An execution the worker is not in
Idle == [pc |-> "idle", id |-> 0, args |-> <<>>, text |-> "",
         vector |-> <<>>, score |-> 0]

\* An HTTP response: the status, the detail, whether the handler reached
\* the Suggestion Generator, what the invocation of the chain did there
\* (nothing where the chain was not invoked), and the body returned.
Response(op, arg, status, detail, generator) ==
    [op |-> op, id |-> arg, args |-> <<>>, status |-> status, detail |-> detail,
     generator |-> generator, backend |-> <<>>, ret |-> None]

\* The end of a task execution: how it ended and what it returned.
Outcome(id, args, outcome, ret) ==
    [op |-> "task", id |-> id, args |-> args, status |-> 0, detail |-> outcome,
     generator |-> FALSE, backend |-> <<>>, ret |-> ret]

\* A step that returns nothing to anyone.
NoEvent == Response("none", 0, 0, "", FALSE)

\* No RAGService object was constructed, _rag_service is None.
EmptyHeap == [objects |-> <<>>, global |-> 0]

\* A thread that is not in get_rag_service; service is the number of the
\* object its last call returned, 0 before its first call returns.
Outside == [pc |-> "outside", service |-> 0]

---------------------------------------------------------------------------
Init ==
    /\ roles \in {<<>>} \cup {<<r>> : r \in StoredRoles}
    /\ candidates = <<>>
    /\ queue = <<>>
    /\ task = [w \in Workers |-> Idle]
    /\ persisted = [t \in 1..MaxTasks |-> 0]
    /\ sessions = [w \in Workers |-> 0]
    /\ rag_service = None
    /\ heap = EmptyHeap
    /\ thread = [t \in Threads |-> Outside]
    /\ event = NoEvent

---------------------------------------------------------------------------
(* POST /roles *)

\* role.embedding = ml_model.encode(text_to_embed).tolist(); add; commit
create_role(text) ==
    /\ Len(roles) < MaxRoles
    /\ roles' = Append(roles, RoleProfile(text, Some(Encode(text))))
    /\ event' = NoEvent
    /\ UNCHANGED <<candidates, queue, task, persisted, sessions, rag_service, heap, thread>>

---------------------------------------------------------------------------
(* POST /analyze *)

\* analyze_resume gone wrong: the table has no foreign key on role_id, so the
\* commit stores a row whatever role the request names.
analyze_resume_no_foreign_key(role_id, filename) ==
    /\ Len(candidates) < MaxCandidates
    /\ LET id == Len(candidates) + 1
           content_b64 == B64Encode(Content(filename))
       IN  /\ candidates' = Append(candidates, PendingCandidate(filename, role_id))
           /\ \/ /\ event' = Response("analyze", id, 500, "TypeError", FALSE)
                 /\ UNCHANGED queue
              \/ /\ Len(queue) < MaxTasks
                 /\ queue' = Append(queue, <<content_b64, id>>)
                 /\ event' = Response("analyze", id, 200, "processing started", FALSE)
    /\ UNCHANGED <<roles, task, persisted, sessions, rag_service, heap, thread>>

\* analyze_resume gone wrong: the task is handed off before the row is
\* committed, so a commit that raises leaves a message about a row that is
\* not there.
analyze_resume_publish_first(role_id, filename) ==
    /\ Len(candidates) < MaxCandidates
    /\ Len(queue) < MaxTasks
    /\ queue' = Append(queue, <<B64Encode(Content(filename)), Len(candidates) + 1>>)
    /\ IF ~RoleExists(role_id)
       THEN /\ event' = Response("analyze", role_id, 500, "IntegrityError", FALSE)
            /\ UNCHANGED candidates
       ELSE /\ candidates' = Append(candidates, PendingCandidate(filename, role_id))
            /\ event' = Response("analyze", Len(candidates) + 1, 200,
                                 "processing started", FALSE)
    /\ UNCHANGED <<roles, task, persisted, sessions, rag_service, heap, thread>>

\* The pending row is committed first; role_id is a foreign key, so the
\* commit of a row whose role is not in the table raises.  Then
\* analyze_resume_task.delay(content_b64, candidate.id) hands the task two
\* positional arguments where its signature has three: celery either
\* rejects the call in the request handler (TypeError, nothing published)
\* or, without the signature check, publishes the message as it is.
analyze_resume(role_id, filename) ==
    /\ Len(candidates) < MaxCandidates
    /\ IF ~RoleExists(role_id)
       THEN /\ event' = Response("analyze", role_id, 500, "IntegrityError", FALSE)
            /\ UNCHANGED <<candidates, queue>>
       ELSE LET id == Len(candidates) + 1
                content_b64 == B64Encode(Content(filename))
            IN  /\ candidates' = Append(candidates, PendingCandidate(filename, role_id))
                /\ \/ /\ event' = Response("analyze", id, 500, "TypeError", FALSE)
                      /\ UNCHANGED queue
                   \/ /\ Len(queue) < MaxTasks
                      /\ queue' = Append(queue, <<content_b64, id>>)
                      /\ event' = Response("analyze", id, 200, "processing started", FALSE)
    /\ UNCHANGED <<roles, task, persisted, sessions, rag_service, heap, thread>>

---------------------------------------------------------------------------
(* analyze_resume_task(file_content_b64, role_id, filename) *)

\* A producer publishes the task with the arguments of its signature.
send_task(file_content_b64, role_id, filename) ==
    /\ Len(queue) < MaxTasks
    /\ queue' = Append(queue, <<file_content_b64, role_id, filename>>)
    /\ event' = NoEvent
    /\ UNCHANGED <<roles, candidates, task, persisted, sessions, rag_service, heap, thread>>

\* ReturnNone gone wrong: a row is added and committed before the
\* execution gives up.
ReturnNoneAfterCommit(t, outcome) ==
    /\ Len(candidates) < MaxCandidates
    /\ task' = task
    /\ candidates' = Append(candidates,
          AnalyzedCandidate(queue[t][3], queue[t][2], 0, "", <<>>))
    /\ event' = Outcome(t, queue[t], outcome, None)

\* print(...); return None: the execution ends here and has written nothing
ReturnNone(t, outcome) ==
    /\ task' = task
    /\ candidates' = candidates
    /\ event' = Outcome(t, queue[t], outcome, None)

\* An exception leaves the task function: nothing was added to the session,
\* the with block closes it.
Raises(t, exception) ==
    /\ task' = task
    /\ candidates' = candidates
    /\ event' = Outcome(t, queue[t], exception, None)

\* with Session(engine) as session: the block is entered
SessionOpened(w, open) == [open EXCEPT ![w] = @ + 1]

\* SessionClosed gone wrong: the session is left as it is.
SessionLeftOpen(w, open) == open

\* The with block is left, at its end, by a return or by an exception:
\* the session is closed.
SessionClosed(w, open) == [open EXCEPT ![w] = @ - 1]

\* A worker receives message t (at-least-once: the broker may deliver a
\* message any number of times, to any worker) and runs the task up to its
\* commit: decode, extract, vectorize, open the session, load the role,
\* score.  The session is open from the with statement on, and closed
\* wherever the execution leaves the block.  A message that does not fit the signature raises TypeError at the
\* call; cosine_similarity on rows of different length raises ValueError and
\* nothing in the task catches it.
task_run(w, t) ==
    /\ task[w].pc = "idle"
    /\ LET args == queue[t]
       IN  IF Len(args) # 3
           THEN Raises(t, "TypeError") /\ sessions' = sessions
           ELSE IF B64DecodeFails(args[1])
           THEN ReturnNone(t, "decode_error") /\ sessions' = sessions
           ELSE IF ExtractFails(B64Decode(args[1]))
           THEN ReturnNone(t, "extract_error") /\ sessions' = sessions
           ELSE LET text == ExtractText(B64Decode(args[1]))
                    resume_vector == Encode(text)
                    role_id == args[2]
                IN  IF ~RoleExists(role_id)
                    THEN /\ ReturnNone(t, "role_not_found")
                         /\ sessions' = SessionClosed(w, SessionOpened(w, sessions))
                    ELSE IF /\ roles[role_id].embedding # None
                            /\ Len(roles[role_id].embedding[1]) # 0
                            /\ DimensionMismatch(resume_vector,
                                                 roles[role_id].embedding[1])
                    THEN /\ Raises(t, "ValueError")
                         /\ sessions' = SessionClosed(w, SessionOpened(w, sessions))
                    ELSE /\ task' = [task EXCEPT ![w] =
                               [pc |-> "save", id |-> t, args |-> args,
                                text |-> text, vector |-> resume_vector,
                                score |-> MatchScore(resume_vector,
                                                     roles[role_id].embedding)]]
                         /\ candidates' = candidates
                         /\ sessions' = SessionOpened(w, sessions)
                         /\ event' = NoEvent
    /\ UNCHANGED <<roles, queue, persisted, rag_service, heap, thread>>

\* candidate = Candidate(...); session.add; session.commit; session.refresh;
\* return candidate.id
task_save(w) ==
    /\ task[w].pc = "save"
    /\ Len(candidates) < MaxCandidates
    /\ candidates' = Append(candidates,
          AnalyzedCandidate(task[w].args[3], task[w].args[2],
                            task[w].score, task[w].text, task[w].vector))
    /\ persisted' = [persisted EXCEPT ![task[w].id] = @ + 1]
    /\ task' = [task EXCEPT ![w] = Idle]
    /\ event' = Outcome(task[w].id, task[w].args, "ok", Some(Len(candidates) + 1))
    /\ sessions' = SessionClosed(w, sessions)
    /\ UNCHANGED <<roles, queue, rag_service, heap, thread>>

---------------------------------------------------------------------------
(* Texts *)

\* A text is the sequence of its characters.  These are the texts behind
\* the names the rows carry: the resume of cv.pdf and three job postings,
\* the third with more than ten words the resume lacks.

\* "Python developer, MySQL\nTeam lead"
ResA ==
    <<"P", "y", "t", "h", "o", "n", " ", "d", "e", "v", "e", "l", "o",
      "p", "e", "r", ",", " ", "M", "y", "S", "Q", "L", "\n", "T", "e",
      "a", "m", " ", "l", "e", "a", "d">>

\* "Python Developer"
TitleA ==
    <<"P", "y", "t", "h", "o", "n", " ", "D", "e", "v", "e", "l", "o",
      "p", "e", "r">>

\* "Django and MySQL"
DescriptionA ==
    <<"D", "j", "a", "n", "g", "o", " ", "a", "n", "d", " ", "M", "y",
      "S", "Q", "L">>

\* "Data Engineer"
TitleB ==
    <<"D", "a", "t", "a", " ", "E", "n", "g", "i", "n", "e", "e", "r">>

\* "Build pipelines"
DescriptionB ==
    <<"B", "u", "i", "l", "d", " ", "p", "i", "p", "e", "l", "i", "n",
      "e", "s">>

\* "PYTHON and SQL"
RequirementsB ==
    <<"P", "Y", "T", "H", "O", "N", " ", "a", "n", "d", " ", "S", "Q", "L">>

\* "Build pipelines Spark Kafka Airflow Docker Linux Scala Hadoop Redis"
DescriptionC ==
    <<"B", "u", "i", "l", "d", " ", "p", "i", "p", "e", "l", "i", "n",
      "e", "s", " ", "S", "p", "a", "r", "k", " ", "K", "a", "f", "k",
      "a", " ", "A", "i", "r", "f", "l", "o", "w", " ", "D", "o", "c",
      "k", "e", "r", " ", "L", "i", "n", "u", "x", " ", "S", "c", "a",
      "l", "a", " ", "H", "a", "d", "o", "o", "p", " ", "R", "e", "d",
      "i", "s">>

\* str.lower() on one character
LowerChar(ch) ==
    CASE ch = "A" -> "a"
      [] ch = "B" -> "b"
      [] ch = "D" -> "d"
      [] ch = "E" -> "e"
      [] ch = "H" -> "h"
      [] ch = "K" -> "k"
      [] ch = "L" -> "l"
      [] ch = "M" -> "m"
      [] ch = "N" -> "n"
      [] ch = "O" -> "o"
      [] ch = "P" -> "p"
      [] ch = "Q" -> "q"
      [] ch = "R" -> "r"
      [] ch = "S" -> "s"
      [] ch = "T" -> "t"
      [] ch = "Y" -> "y"
      [] OTHER -> ch

\* str.lower()
Lower(text) == [i \in 1..Len(text) |-> LowerChar(text[i])]

IsSpace(ch) == ch \in {" ", "\n", "\t"}

\* The least number of a set of numbers that is not empty
Least(S) == CHOOSE i \in S : \A j \in S : i <= j

\* str.split(): the maximal runs of characters that are no whitespace, in
\* the order of the text.  The text is read from position i: the next word
\* starts at the first character that is no whitespace and stops before the
\* first whitespace after it.
RECURSIVE SplitWords(_, _)
SplitWords(text, i) ==
    LET starts == {j \in i..Len(text) : ~IsSpace(text[j])}
    IN  IF starts = {} THEN <<>>
        ELSE LET start == Least(starts)
                 stops == {j \in start..Len(text) : IsSpace(text[j])}
                 stop  == IF stops = {} THEN Len(text) + 1 ELSE Least(stops)
             IN  <<SubSeq(text, start, stop - 1)>> \o SplitWords(text, stop)

Split(text) == SplitWords(text, 1)

\* candidate.resume_text
ResumeChars(text) ==
    CASE text = "resA" -> ResA
      [] text = ""     -> <<>>

ResumeTexts == {"resA", ""}

\* The postings a row of roleprofile may carry: those this run creates,
\* and a longer one.
PostedJobs == JobTexts \cup {"jobC"}

\* role.title
JobTitle(job) ==
    CASE job = "jobA" -> TitleA
      [] job = "jobB" -> TitleB
      [] job = "jobC" -> TitleB

\* role.description
JobDescription(job) ==
    CASE job = "jobA" -> DescriptionA
      [] job = "jobB" -> DescriptionB
      [] job = "jobC" -> DescriptionC

\* role.requirements: Optional[str]
JobRequirements(job) ==
    CASE job = "jobA" -> None
      [] job = "jobB" -> Some(RequirementsB)
      [] job = "jobC" -> Some(RequirementsB)

---------------------------------------------------------------------------
(* rag_service.py: RAGService *)

\* settings.OPENAI_API_KEY, read with getattr(settings, 'OPENAI_API_KEY',
\* None).  config.py declares no such attribute, so the key is there only
\* where the deployment puts it on the settings object.
ApiKeys == {None, Some("sk-test")}

\* RAGService gone wrong: the chain is built whether or not there is a key.
RAGServiceAlwaysChain(api_key) ==
    [api_key |-> api_key,
     chain |-> Some([model |-> "gpt-4o-mini", timeout |-> None])]

\* RAGService(): _initialize_components returns before building anything
\* when there is no key; otherwise self.chain = prompt | ChatOpenAI(model,
\* temperature, max_tokens, api_key), no timeout being passed.
RAGService(api_key) ==
    [api_key |-> api_key,
     chain |-> IF api_key = None \/ api_key = Some("")
               THEN None
               ELSE Some([model |-> "gpt-4o-mini", timeout |-> None])]

\* What self.chain.invoke does: it raises, it returns the text of the
\* model's message, or, no timeout being set, it does not come back.
Hangs == <<"hangs">>

\* The texts the model is seen to answer with: one that holds a whole
\* SuggestionOutput, with lists longer and shorter than asked for, and one
\* that lacks a field of it.
ModelOutputs == {"json_whole", "json_partial"}

Invocations ==
    {<<"raises">>, Hangs} \cup
    {<<"returns", result_text>> : result_text \in ModelOutputs}

\* The chain was not invoked.
NotCalled == <<>>

\* self.output_parser.parse(result_text): the SuggestionOutput the text
\* holds; a text that lacks a field of SuggestionOutput raises.
parse(result_text) ==
    CASE result_text = "json_whole" ->
           Some([strengths   |-> <<"s1", "s2", "s3", "s4", "s5", "s6">>,
                 weaknesses  |-> <<"w1", "w2", "w3">>,
                 suggestions |-> <<"a1", "a2", "a3", "a4", "a5", "a6", "a7", "a8">>,
                 keywords_to_add |-> <<"k1", "k2", "k3", "k4", "k5", "k6",
                                       "k7", "k8", "k9", "k10", "k11", "k12">>,
                 overall_assessment |-> "A strong fit."])
      [] OTHER -> None

\* TakeFirst gone wrong: the list is passed on whole.
TakeAll(list, n) == list

\* list[:n]
TakeFirst(list, n) == SubSeq(list, 1, IF Len(list) < n THEN Len(list) ELSE n)

\* set(word for word in text.split() if len(word) > 4)
Keywords(text) ==
    LET words == Split(text)
    IN  {words[i] : i \in {j \in 1..Len(words) : Len(words[j]) > 4}}

\* missing_keywords gone wrong: the words of the resume are not taken out.
missing_keywords_all(resume_text, job_title, job_description, job_requirements) ==
    Keywords(Lower(job_title \o <<" ">> \o job_description \o <<" ">> \o
                   (IF job_requirements = None THEN <<>> ELSE job_requirements[1])))

\* job_keywords - resume_keywords in _generate_fallback_suggestions
missing_keywords(resume_text, job_title, job_description, job_requirements) ==
    LET resume_lower == Lower(resume_text)
        job_text == Lower(job_title \o <<" ">> \o job_description \o <<" ">> \o
                          (IF job_requirements = None THEN <<>>
                           ELSE job_requirements[1]))
    IN  Keywords(job_text) \ Keywords(resume_lower)

\* list(missing_keywords)[:10]: the first ten in the set's iteration order,
\* which is any order.  The list is kept as the set of its elements.
FirstTen(keywords) ==
    IF Cardinality(keywords) <= 10
    THEN {keywords}
    ELSE {k \in SUBSET keywords : Cardinality(k) = 10}

\* The keyword lists of the fallback, worked out once for each resume and
\* posting of the model: <<resume, posting, the lists it may come to>>.
FallbackKeywords ==
    {<<resume_text, job,
       FirstTen(missing_keywords(ResumeChars(resume_text), JobTitle(job),
                                 JobDescription(job), JobRequirements(job)))>> :
        resume_text \in ResumeTexts, job \in PostedJobs}

FallbackMarker ==
    "Fallback analysis (LLM not configured - add OPENAI_API_KEY to enable LangChain-powered suggestions)"

\* f"{match_score or 0:.1f}": the score, kept in hundredths, to the nearest
\* tenth, in tenths.  A score half way between two tenths goes up here; in
\* Python it goes by the binary value of the float.
OneDecimal(match_score) ==
    LET n == IF match_score = None THEN 0 ELSE match_score[1]
    IN  IF n >= 0 THEN (n + 5) \div 10 ELSE -((5 - n) \div 10)

\* What a call of the service comes to: a value returned or an exception
\* that leaves it.
Return(value) == <<"return", value>>
Raise(exception) == <<"raise", exception>>

\* _generate_fallback_suggestions: the results it may return.  job stands
\* for job_title, job_description and job_requirements, the three texts of
\* one posting; resume_text is the column's value, and resume_text.lower()
\* raises where it is None.
generate_fallback_suggestions(resume_text, job, match_score) ==
    IF resume_text = None
    THEN {Raise("AttributeError")}
    ELSE
    {Return([strengths   |-> <<"Resume contains relevant keywords",
                               "Professional experience is documented">>,
             weaknesses  |-> <<"Some job-specific keywords may be missing",
                               "Consider tailoring resume more to job requirements">>,
             suggestions |-> <<"Add missing keywords naturally into your resume",
                               "Highlight relevant experience more prominently",
                               "Quantify achievements where possible",
                               "Align skills section with job requirements",
                               "Customize summary/objective for this role">>,
             keywords_to_add |-> keywords,
             overall_assessment |-> <<"Based on keyword analysis", OneDecimal(match_score)>>,
             match_score |-> match_score,
             raw_response |-> FallbackMarker]) :
       keywords \in (CHOOSE row \in FallbackKeywords :
                         row[1] = resume_text[1] /\ row[2] = job)[3]}

\* suggestion_dict gone wrong: the marker of the fallback is put where the
\* model's text belongs.
suggestion_dict_marked(parsed_output, match_score, result_text) ==
    [strengths   |-> TakeFirst(parsed_output.strengths, 5),
     weaknesses  |-> TakeFirst(parsed_output.weaknesses, 5),
     suggestions |-> TakeFirst(parsed_output.suggestions, 7),
     keywords_to_add |-> parsed_output.keywords_to_add,
     overall_assessment |-> parsed_output.overall_assessment,
     match_score |-> match_score,
     raw_response |-> FallbackMarker]

\* The dictionary generate_suggestions returns from the parsed output
suggestion_dict(parsed_output, match_score, result_text) ==
    [strengths   |-> TakeFirst(parsed_output.strengths, 5),
     weaknesses  |-> TakeFirst(parsed_output.weaknesses, 5),
     suggestions |-> TakeFirst(parsed_output.suggestions, 7),
     keywords_to_add |-> parsed_output.keywords_to_add,
     overall_assessment |-> parsed_output.overall_assessment,
     match_score |-> match_score,
     raw_response |-> result_text]

\* generate_suggestions gone wrong: the call of the chain is not guarded,
\* so what it raises leaves the service.
generate_suggestions_unguarded(self, resume_text, job, match_score, invoke) ==
    IF self.chain = None
    THEN generate_fallback_suggestions(resume_text, job, match_score)
    ELSE IF invoke[1] = "raises" THEN {Raise("APIError")}
    ELSE IF parse(invoke[2]) = None THEN {Raise("OutputParserException")}
    ELSE {Return(suggestion_dict(parse(invoke[2])[1], match_score, invoke[2]))}

\* generate_suggestions, for an invocation that comes back: without a chain
\* the fallback; with one, the chain is invoked and its text parsed, and
\* whatever either raises is caught and answered with the fallback.
generate_suggestions(self, resume_text, job, match_score, invoke) ==
    IF self.chain = None
    THEN generate_fallback_suggestions(resume_text, job, match_score)
    ELSE IF invoke[1] = "raises"
    THEN generate_fallback_suggestions(resume_text, job, match_score)
    ELSE LET result_text == invoke[2]
             parsed_output == parse(result_text)
         IN  IF parsed_output = None
             THEN generate_fallback_suggestions(resume_text, job, match_score)
             ELSE {Return(suggestion_dict(parsed_output[1], match_score, result_text))}

\* get_rag_service(): the instance of the module, built on first use from
\* the key the settings hold then
get_rag_service ==
    IF rag_service = None
    THEN {RAGService(api_key) : api_key \in ApiKeys}
    ELSE {rag_service[1]}

\* The heap after the call of get_rag_service that yields service: one more
\* object where the call found _rag_service None and built it.
Constructed(service) ==
    IF rag_service = None
    THEN [objects |-> Append(heap.objects, service), global |-> Len(heap.objects) + 1]
    ELSE heap

\* What the call of the service meets: a service without a chain invokes
\* nothing.
Invoked(self) == IF self.chain = None THEN {NotCalled} ELSE Invocations

---------------------------------------------------------------------------
(* GET /candidates/{candidate_id}/suggestions *)

\* NotProcessed gone wrong: the check of the resume text is left out.
NotProcessedSkipped(candidate) == FALSE

\* if not candidate.resume_text
NotProcessed(candidate) ==
    candidate.resume_text = None \/ candidate.resume_text = Some("")

\* The response of a request that reached the generator: the dictionary it
\* returned, or the error the framework answers an exception with.
Suggestions(candidate_id, backend, outcome) ==
    IF outcome[1] = "return"
    THEN [Response("suggestions", candidate_id, 200, "", TRUE)
            EXCEPT !.backend = backend, !.ret = Some(outcome[2])]
    ELSE [Response("suggestions", candidate_id, 500, "Internal Server Error", TRUE)
            EXCEPT !.backend = backend]

\* The request is in the generator and the invocation never comes back:
\* nothing is returned.
NoResponse(candidate_id, backend) ==
    [Response("suggestions", candidate_id, 0, "no response", TRUE)
       EXCEPT !.backend = backend]

\* get_suggestions gone wrong: the handler writes the score it shows back
\* to the candidate's row.
get_suggestions_storing(candidate_id) ==
    /\ candidate_id \in DOMAIN candidates
    /\ ~NotProcessed(candidates[candidate_id])
    /\ RoleExists(candidates[candidate_id].role_id)
    /\ \E service \in get_rag_service :
          /\ rag_service' = Some(service)
          /\ heap' = Constructed(service)
          /\ \E invoke \in Invoked(service) \ {Hangs} :
                \E suggestions \in generate_suggestions(service,
                        candidates[candidate_id].resume_text,
                        roles[candidates[candidate_id].role_id].text,
                        candidates[candidate_id].match_score, invoke) :
                   event' = Suggestions(candidate_id, invoke, suggestions)
    /\ candidates' = [candidates EXCEPT ![candidate_id].match_score = Some(0)]
    /\ UNCHANGED <<roles, queue, task, persisted, sessions, thread>>

\* The handler: the candidate, its text, its role, then the service.  The
\* key is read where the service is first built; invoke is what the chain
\* does where it is invoked.
get_suggestions(candidate_id) ==
    /\ IF candidate_id \notin DOMAIN candidates
       THEN /\ event' = Response("suggestions", candidate_id, 404,
                                 "Candidate not found", FALSE)
            /\ UNCHANGED <<rag_service, heap>>
       ELSE IF NotProcessed(candidates[candidate_id])
       THEN /\ event' = Response("suggestions", candidate_id, 400,
                   "Resume has not been processed yet. Please wait for analysis to complete.",
                   FALSE)
            /\ UNCHANGED <<rag_service, heap>>
       ELSE IF ~RoleExists(candidates[candidate_id].role_id)
       THEN /\ event' = Response("suggestions", candidate_id, 404,
                                 "Role not found", FALSE)
            /\ UNCHANGED <<rag_service, heap>>
       ELSE LET candidate == candidates[candidate_id]
                role == roles[candidate.role_id]
            IN  \E service \in get_rag_service :
                  /\ rag_service' = Some(service)
                  /\ heap' = Constructed(service)
                  /\ \E invoke \in Invoked(service) :
                        IF invoke = Hangs
                        THEN event' = NoResponse(candidate_id, invoke)
                        ELSE \E suggestions \in generate_suggestions(service,
                                    candidate.resume_text, role.text,
                                    candidate.match_score, invoke) :
                                event' = Suggestions(candidate_id, invoke, suggestions)
    /\ UNCHANGED <<roles, candidates, queue, task, persisted, sessions, thread>>

---------------------------------------------------------------------------
\* What a producer sends: a file's content encoded, under the file's name,
\* for the first role; a string that is no base64; a file for a role that no
\* row has.
Sendable ==
    {<<B64Encode(Content(f)), 1, f>> : f \in Files}
      \cup {<<CorruptB64, 1, "cv.pdf">>}
      \cup {<<B64Encode(Content("cv.pdf")), 9, "cv.pdf">>}

Next ==
    \/ \E text \in JobTexts : create_role(text)
    \/ \E role_id \in RoleIds, filename \in Files :
          analyze_resume(role_id, filename)
    \/ \E s \in Sendable : send_task(s[1], s[2], s[3])
    \/ \E w \in Workers, t \in DOMAIN queue : task_run(w, t)
    \/ \E w \in Workers : task_save(w)
    \/ \E candidate_id \in 1..MaxCandidates : get_suggestions(candidate_id)

Spec == Init /\ [][Next]_vars

\* The broker delivers every message it holds and a worker that has started
\* a task runs it to its end.
FairSpec ==
    /\ Spec
    /\ \A w \in Workers : WF_vars(\E t \in DOMAIN queue : task_run(w, t))
    /\ \A w \in Workers : WF_vars(task_save(w))

---------------------------------------------------------------------------
(* The Suggestion Generator on its own *)

\* The rows the task leaves for an upload to role 1, and the rows
\* submissions leave.
CandidateRows(role) ==
    {PendingCandidate(f, 1) : f \in Files} \cup
    {AnalyzedCandidate(f, 1,
                       MatchScore(Encode(ExtractText(Content(f))), role.embedding),
                       ExtractText(Content(f)), Encode(ExtractText(Content(f)))) :
        f \in {g \in Files : ~ExtractFails(Content(g))}}

\* The roles a store may hold: those POST /roles writes for a posting, and
\* a row without embedding.
RoleRows ==
    {RoleProfile(job, Some(Encode(job))) : job \in PostedJobs}
      \cup {RoleProfile("jobA", None)}

\* A store as the pipeline leaves it: one role and the candidates of it.
\* The broker and the workers are at rest, no suggestions were asked for yet.
GeneratorInit ==
    /\ roles \in {<<r>> : r \in RoleRows}
    /\ \E n \in 1..MaxCandidates :
          candidates \in [1..n -> CandidateRows(roles[1])]
    /\ queue = <<>>
    /\ task = [w \in Workers |-> Idle]
    /\ persisted = [t \in 1..MaxTasks |-> 0]
    /\ sessions = [w \in Workers |-> 0]
    /\ rag_service = None
    /\ heap = EmptyHeap
    /\ thread = [t \in Threads |-> Outside]
    /\ event = NoEvent

GeneratorNext ==
    \E candidate_id \in 1..MaxCandidates : get_suggestions(candidate_id)

\* Suggestions requests against such a store.
GeneratorSpec == GeneratorInit /\ [][GeneratorNext]_vars

---------------------------------------------------------------------------
(* get_rag_service, statement by statement, on the threads of the pool *)

\* get_suggestions is declared with def, so the framework runs each request
\* on a thread of its pool, and the interpreter may switch threads between
\* any two statements of get_rag_service: it holds no lock.

\* rag_service = get_rag_service(): the thread enters the function
call_get_rag_service(t) ==
    /\ thread[t].pc = "outside"
    /\ thread' = [thread EXCEPT ![t] = [pc |-> "test", service |-> 0]]
    /\ UNCHANGED <<roles, candidates, queue, task, persisted, sessions, rag_service, heap, event>>

\* if _rag_service is None
test_rag_service(t) ==
    /\ thread[t].pc = "test"
    /\ thread' = [thread EXCEPT ![t].pc = IF rag_service = None THEN "construct" ELSE "return"]
    /\ UNCHANGED <<roles, candidates, queue, task, persisted, sessions, rag_service, heap, event>>

\* RAGService(): a new object, built from the key the settings hold; the
\* settings are read once per process, so every object has the same key.
construct_rag_service(t) ==
    /\ thread[t].pc = "construct"
    /\ \E api_key \in IF heap.objects = <<>> THEN ApiKeys ELSE {heap.objects[1].api_key} :
          heap' = [heap EXCEPT !.objects = Append(heap.objects, RAGService(api_key))]
    /\ thread' = [thread EXCEPT ![t] = [pc |-> "assign", service |-> Len(heap.objects) + 1]]
    /\ UNCHANGED <<roles, candidates, queue, task, persisted, sessions, rag_service, event>>

\* _rag_service = <the object built>
assign_rag_service(t) ==
    /\ thread[t].pc = "assign"
    /\ rag_service' = Some(heap.objects[thread[t].service])
    /\ heap' = [heap EXCEPT !.global = thread[t].service]
    /\ thread' = [thread EXCEPT ![t].pc = "return"]
    /\ UNCHANGED <<roles, candidates, queue, task, persisted, sessions, event>>

\* return _rag_service: what the global names now
return_rag_service(t) ==
    /\ thread[t].pc = "return"
    /\ thread' = [thread EXCEPT ![t] = [pc |-> "outside", service |-> heap.global]]
    /\ UNCHANGED <<roles, candidates, queue, task, persisted, sessions, rag_service, heap, event>>

\* A process that has just started: nothing stored, nothing built.
SingletonInit ==
    /\ roles = <<>>
    /\ candidates = <<>>
    /\ queue = <<>>
    /\ task = [w \in Workers |-> Idle]
    /\ persisted = [t \in 1..MaxTasks |-> 0]
    /\ sessions = [w \in Workers |-> 0]
    /\ rag_service = None
    /\ heap = EmptyHeap
    /\ thread = [t \in Threads |-> Outside]
    /\ event = NoEvent

SingletonNext ==
    \/ \E t \in Threads : call_get_rag_service(t)
    \/ \E t \in Threads : test_rag_service(t)
    \/ \E t \in Threads : construct_rag_service(t)
    \/ \E t \in Threads : assign_rag_service(t)
    \/ \E t \in Threads : return_rag_service(t)

\* Requests for suggestions that reach get_rag_service, on any schedule.
SingletonSpec == SingletonInit /\ [][SingletonNext]_vars

---------------------------------------------------------------------------
(* Properties *)

Pending(c) == c \in DOMAIN candidates /\ candidates[c].match_score = None

Analyzed(c) == c \in DOMAIN candidates /\ candidates[c].match_score # None

\* Worker w commits in this step.
Commits(w) == task[w].pc = "save" /\ task'[w].pc = "idle"

\* A task execution has just ended this way.
Ended(outcome) == event.op = "task" /\ event.detail = outcome

\* C1: a successful task execution, run while a submission's record is
\* pending, sets resume_text, resume_vector and match_score on a record that
\* was pending and creates no further Candidate record.
C1_TaskMutatesSubmittedRecord ==
    [][\A w \in Workers :
         (Commits(w) /\ \E c \in DOMAIN candidates : Pending(c)) =>
            /\ Len(candidates') = Len(candidates)
            /\ \E c \in DOMAIN candidates :
                  /\ Pending(c)
                  /\ candidates'[c].match_score # None
                  /\ candidates'[c].resume_text # None
                  /\ candidates'[c].resume_vector # None]_vars

\* C2: in every reachable state every Candidate record has match_score None
\* exactly when it has resume_text None.
C2_ScoreIffText ==
    \A c \in DOMAIN candidates :
        (candidates[c].match_score = None) <=> (candidates[c].resume_text = None)

\* A pending record and an analyzed one side by side, a task having just
\* committed.
C2_Witness ==
    /\ Ended("ok")
    /\ \E c, d \in DOMAIN candidates : Pending(c) /\ Analyzed(d)

\* C3: an execution of a task that already has a persisted result leaves
\* the Candidate records as they were.
C3_RerunIsNoOp ==
    [][\A w \in Workers :
         (Commits(w) /\ persisted[task[w].id] > 0) => candidates' = candidates]_vars

\* C4: whatever the interleaving of the deliveries of one task message, at
\* most one of its executions persists a result.
C4_AtMostOnePersistence ==
    \A t \in DOMAIN persisted : persisted[t] <= 1

FailedOutcomes == {"decode_error", "extract_error", "role_not_found"}

\* C5: a step in which a task execution ends at transport decoding, at text
\* extraction or at a missing role changes no Candidate record, so every
\* pending record is still pending.
C5_FailedTaskWritesNothing ==
    [][(event'.op = "task" /\ event'.detail \in FailedOutcomes) =>
          /\ candidates' = candidates
          /\ \A c \in DOMAIN candidates : Pending(c) => Pending(c)']_vars

\* A task has just ended at a missing role while a submission is pending.
C5_Witness ==
    /\ Ended("role_not_found")
    /\ \E c \in DOMAIN candidates : Pending(c)

\* C6: no exception of the scoring step (an embedding of another dimension
\* than the resume vector) leaves the task function.
C6_NoExceptionEscapes ==
    ~Ended("ValueError")

\* The upload of candidate c decodes and parses as a PDF, and its role exists.
GoodSubmission(c) ==
    /\ Pending(c)
    /\ ~ExtractFails(Content(candidates[c].filename))
    /\ RoleExists(candidates[c].role_id)

\* C7: the record a good submission created is eventually analyzed.
C7_SubmittedEventuallyAnalyzed ==
    \A c \in 1..MaxCandidates : [](GoodSubmission(c) => <>Analyzed(c))

\* The role the task message of the last event names has no embedding.
RoleWithoutEmbedding(role_id) ==
    RoleExists(role_id) /\ roles[role_id].embedding = None

\* C8: a task whose role has embedding None does not fail, and the
\* match_score it computes and persists is 0.
C8_NoEmbeddingScoresZero ==
    /\ \A w \in Workers :
          (task[w].pc = "save" /\ RoleWithoutEmbedding(task[w].args[2])) =>
             task[w].score = 0
    /\ \A c \in DOMAIN candidates :
          (Analyzed(c) /\ RoleWithoutEmbedding(candidates[c].role_id)) =>
             candidates[c].match_score = Some(0)
    /\ (/\ event.op = "task"
        /\ Len(event.args) = 3
        /\ ~B64DecodeFails(event.args[1])
        /\ ~ExtractFails(B64Decode(event.args[1]))
        /\ RoleWithoutEmbedding(event.args[2])) =>
             /\ event.detail = "ok"
             /\ candidates[event.ret[1]].match_score = Some(0)

\* A task has just persisted a row for a role without embedding.
C8_Witness ==
    /\ Ended("ok")
    /\ RoleWithoutEmbedding(event.args[2])
    /\ candidates[event.ret[1]].resume_text = Some("resA")

\* round(max(0, cos) * 100, 2)
ClampedPct(v, e) == IF CosinePct(v, e) < 0 THEN 0 ELSE CosinePct(v, e)

\* C9: every persisted match_score of a record whose role embedding has the
\* dimension of its resume vector is round(max(0, cos) * 100, 2), within
\* [0, 100].
C9_ScoreIsClampedCosine ==
    \A c \in DOMAIN candidates :
        LET row == candidates[c]
            emb == roles[row.role_id].embedding
        IN  (/\ Analyzed(c)
             /\ emb # None
             /\ Len(emb[1]) = Len(row.resume_vector[1])) =>
               /\ row.match_score = Some(ClampedPct(row.resume_vector[1], emb[1]))
               /\ row.match_score[1] >= 0
               /\ row.match_score[1] <= 10000

\* C10: a suggestions request for a missing candidate, for a pending
\* candidate, or for an analyzed candidate whose role is missing ends with
\* the error of its case (404 candidate, 400 not processed, 404 role), the
\* three differ, and none of them reaches the Suggestion Generator.
C10_SuggestionErrors ==
    event.op = "suggestions" =>
        LET id == event.id
        IN  /\ id \notin DOMAIN candidates =>
                 /\ event.status = 404
                 /\ event.detail = "Candidate not found"
                 /\ ~event.generator
            /\ (id \in DOMAIN candidates /\ candidates[id].resume_text = None) =>
                 /\ event.status = 400
                 /\ event.detail =
                      "Resume has not been processed yet. Please wait for analysis to complete."
                 /\ ~event.generator
            /\ (/\ id \in DOMAIN candidates
                /\ candidates[id].resume_text # None
                /\ ~RoleExists(candidates[id].role_id)) =>
                 /\ event.status = 404
                 /\ event.detail = "Role not found"
                 /\ ~event.generator
            /\ event.generator =>
                 /\ Analyzed(id)
                 /\ RoleExists(candidates[id].role_id)

\* Suggestions were just asked for a candidate that is pending.
C10_Witness ==
    /\ event.op = "suggestions"
    /\ Pending(event.id)
    /\ event.status = 400

---------------------------------------------------------------------------
(* Properties of the Suggestion Generator *)

\* The last step was a suggestions request that entered generate_suggestions.
InGenerator == event.op = "suggestions" /\ event.generator

\* The candidate and the role the last suggestions request was about.
Asked == candidates[event.id]
AskedRole == roles[Asked.role_id]

\* The dictionary the last request returned.
Returned == event.ret[1]

\* What the invocation did made generate_suggestions fall back: there was no
\* chain, the chain raised, or its text did not parse.
FellBack ==
    \/ event.backend = NotCalled
    \/ event.backend[1] = "raises"
    \/ event.backend[1] = "returns" /\ parse(event.backend[2]) = None

\* The dictionary returned is one the fallback gives for what was asked.
FallbackReturned ==
    /\ event.status = 200
    /\ event.ret # None
    /\ Return(Returned) \in
         generate_fallback_suggestions(Asked.resume_text, AskedRole.text,
                                       Asked.match_score)

\* C11: whatever the backend does that comes to an end (no chain configured,
\* the call raises, the response does not parse, success),
\* generate_suggestions returns a dictionary and raises nothing, and where
\* something failed inside the dictionary is the fallback's.
C11_NeverRaises ==
    (InGenerator /\ event.backend # Hangs) =>
        /\ event.status = 200
        /\ event.ret # None
        /\ FellBack => FallbackReturned

\* The chain raised and the request was answered.
C11_Witness ==
    /\ InGenerator
    /\ event.backend = <<"raises">>
    /\ event.status = 200
    /\ Returned.raw_response = FallbackMarker

\* C12: a service built without a key answers every call with the fallback
\* and invokes nothing.
C12_NoKeyNoCall ==
    (InGenerator /\ rag_service[1].api_key = None) =>
        /\ event.backend = NotCalled
        /\ FallbackReturned

\* Suggestions were asked of a service that has no key.
C12_Witness ==
    /\ InGenerator
    /\ rag_service[1].api_key = None
    /\ event.backend = NotCalled
    /\ event.ret # None

\* C13: a call of the language model that does not respond is cut off by a
\* request timeout, so a request that entered generate_suggestions and met
\* such a call is answered all the same, with the fallback's dictionary.
C13_HungCallFallsBack ==
    (InGenerator /\ event.backend = Hangs) => FallbackReturned

\* C14: on the primary path and on the fallback path the dictionary has the
\* five fields strengths, weaknesses, suggestions, keywords_to_add and
\* overall_assessment, with at most 5 strengths, 5 weaknesses and 7
\* suggestions, whatever the lengths of the lists the backend sent.
C14_ShapeAndLengths ==
    (InGenerator /\ event.ret # None) =>
        /\ {"strengths", "weaknesses", "suggestions", "keywords_to_add",
            "overall_assessment"} \subseteq DOMAIN Returned
        /\ Len(Returned.strengths) <= 5
        /\ Len(Returned.weaknesses) <= 5
        /\ Len(Returned.suggestions) <= 7

\* The backend sent 6 strengths and 8 suggestions and the dictionary of the
\* primary path holds 5 and 7 of them.
C14_Witness ==
    /\ InGenerator
    /\ event.backend = <<"returns", "json_whole">>
    /\ Len(parse("json_whole")[1].strengths) > 5
    /\ Len(parse("json_whole")[1].suggestions) > 7
    /\ Len(Returned.strengths) = 5
    /\ Len(Returned.suggestions) = 7
    /\ Returned.raw_response = "json_whole"

\* The words of a text, as written.
Words(text) ==
    LET words == Split(text)
    IN  {words[i] : i \in 1..Len(words)}

\* The word, whatever the case of its letters, is a word of the text.
OccursIn(word, text) == \E w \in Words(text) : Lower(w) = Lower(word)

\* C15: on the fallback path keywords_to_add has at most 10 elements, and
\* each is a word of more than 4 characters that is a word of the job's
\* title, description or requirements and is no word of the resume text,
\* whatever the case of the letters.
C15_FallbackKeywords ==
    (InGenerator /\ event.ret # None /\ FellBack) =>
        /\ Cardinality(Returned.keywords_to_add) <= 10
        /\ \A word \in Returned.keywords_to_add :
              /\ Len(word) > 4
              /\ \/ OccursIn(word, JobTitle(AskedRole.text))
                 \/ OccursIn(word, JobDescription(AskedRole.text))
                 \/ /\ JobRequirements(AskedRole.text) # None
                    /\ OccursIn(word, JobRequirements(AskedRole.text)[1])
              /\ ~OccursIn(word, ResumeChars(Asked.resume_text[1]))

\* The posting has more than ten long words the resume lacks, and one the
\* resume has in other letters; the fallback returned ten of the former.
C15_Witness ==
    /\ InGenerator
    /\ FellBack
    /\ event.ret # None
    /\ Cardinality(Returned.keywords_to_add) = 10
    /\ Cardinality(missing_keywords(ResumeChars(Asked.resume_text[1]),
                                    JobTitle(AskedRole.text),
                                    JobDescription(AskedRole.text),
                                    JobRequirements(AskedRole.text))) > 10
    /\ OccursIn(<<"p", "y", "t", "h", "o", "n">>, JobRequirements(AskedRole.text)[1])
    /\ <<"p", "y", "t", "h", "o", "n">> \notin Returned.keywords_to_add

\* C16: raw_response tells the path: it is the text the model sent wherever
\* the primary path made the dictionary, and the one marker of the fallback
\* wherever the fallback made it (no key, the call raised, the text did not
\* parse); the marker is never the raw_response of the primary path.
C16_RawResponseTellsPath ==
    (InGenerator /\ event.ret # None) =>
        /\ FellBack => Returned.raw_response = FallbackMarker
        /\ ~FellBack =>
              /\ Returned.raw_response = event.backend[2]
              /\ Returned.raw_response # FallbackMarker

\* The primary path answered with the model's text as raw_response.
C16_Witness ==
    /\ InGenerator
    /\ event.ret # None
    /\ ~FellBack
    /\ Returned.raw_response = "json_whole"

---------------------------------------------------------------------------
(* Properties of the requests and of the task's session *)

\* C17: a suggestions request for a candidate whose row has its resume_text
\* set, the empty text of a PDF without text included, and whose role
\* exists, enters the Suggestion Generator and is not answered with the
\* error of a resume not yet processed.
C17_AnalyzedReachesGenerator ==
    (/\ event.op = "suggestions"
     /\ event.id \in DOMAIN candidates
     /\ candidates[event.id].resume_text # None
     /\ RoleExists(candidates[event.id].role_id)) =>
        /\ event.generator
        /\ event.status # 400

\* The rows a step of a submission adds all have resume_text, resume_vector
\* and match_score unset, and the rows there were are as they were.
OnlyPendingAdded ==
    /\ Len(candidates') >= Len(candidates)
    /\ \A c \in DOMAIN candidates : candidates'[c] = candidates[c]
    /\ \A c \in DOMAIN candidates' \ DOMAIN candidates :
          /\ candidates'[c].resume_text = None
          /\ candidates'[c].resume_vector = None
          /\ candidates'[c].match_score = None

\* Every message a submission published names a candidate row of the store.
SubmittedTasksHaveRows ==
    \A t \in DOMAIN queue' :
        Len(queue'[t]) = 2 => queue'[t][2] \in DOMAIN candidates'

\* C18: a submission commits the pending row and then hands the task off:
\* the step of a submission adds nothing but a row with resume_text,
\* resume_vector and match_score unset, and after every step each task message
\* a submission published names a candidate row that is in the store.
C18_CommitBeforeHandOff ==
    [][/\ event'.op = "analyze" => OnlyPendingAdded
       /\ SubmittedTasksHaveRows]_vars

\* A submission has just been answered: its row is pending and its task
\* message is with the broker.
C18_Witness ==
    /\ event.op = "analyze"
    /\ event.status = 200
    /\ Pending(event.id)
    /\ candidates[event.id].resume_text = None
    /\ \E t \in DOMAIN queue : Len(queue[t]) = 2 /\ queue[t][2] = event.id

\* C19: a suggestions request, whether it ends in an error, on the primary
\* path or on the fallback path, leaves every Candidate row and every
\* RoleProfile row as it was.
C19_SuggestionsReadOnly ==
    [][event'.op = "suggestions" =>
          /\ candidates' = candidates
          /\ roles' = roles]_vars

\* Suggestions were just returned for an analyzed candidate, the store
\* holding a pending row too.
C19_Witness ==
    /\ InGenerator
    /\ event.ret # None
    /\ Analyzed(event.id)
    /\ \E c \in DOMAIN candidates : Pending(c)

C21_CandidateRoleExists ==
    \A c \in DOMAIN candidates : RoleExists(candidates[c].role_id)

\* A submission for a missing role has just been refused while the role
\* table is not empty and the store holds a row that the task wrote.
C21_Witness ==
    /\ event.op = "analyze"
    /\ event.detail = "IntegrityError"
    /\ ~RoleExists(event.id)
    /\ roles # <<>>
    /\ \E c \in DOMAIN candidates : Analyzed(c)

\* C22: whatever the schedule of the threads that call get_rag_service, at
\* most one RAGService object is ever constructed, and every call that has
\* returned returned that one object.
C22_OneInstance ==
    /\ Len(heap.objects) <= 1
    /\ \A t1, t2 \in Threads :
          (/\ thread[t1].pc = "outside" /\ thread[t1].service # 0
           /\ thread[t2].pc = "outside" /\ thread[t2].service # 0) =>
             thread[t1].service = thread[t2].service

=============================================================================
